---- MODULE Spec2Model ----
(***************************************************************************)
(* A model of MCP-Host: the stdio client's request/response correlation    *)
(* and handshake (mcp_client.py, MCPStdioClient), the HTTP client           *)
(* (mcp_client.py, MCPClient), and the Host's server lifecycle, tool        *)
(* registry and tool directives (mcp_host.py, MCPHost; the override file is *)
(* edited by host_server.py).                                               *)
(***************************************************************************)
EXTENDS Integers, Sequences, FiniteSets, TLC

(***************************************************************************)
(* Bounds of the model.                                                    *)
(***************************************************************************)
MaxReq == 2
MaxQueue == 2
MaxHandles == 2
MaxRev == 2
MaxPieces == 3
MaxLog == 2

VARIABLES
    \* ---- MCPStdioClient ----
    out_q,      \* self._out_q: the lines the reader thread has queued
    pc,         \* per caller thread: "idle", or "get" (blocked in _out_q.get)
    rid,        \* per caller thread: the id of the request it awaits
    req,        \* per request id: its state, its return value, single-flight flag
    nextId,     \* the next fresh request id (uuid4 never repeats)
    answered,   \* request ids whose response line was queued while they waited
    lost,       \* waiting requests whose response line another request dequeued
    stale,      \* returned requests whose response line a later request dequeued
    \* ---- MCPHost ----
    disk,       \* the configuration file: server name -> entry
    servers,    \* self._servers
    clients,    \* self._clients, in insertion order
    live,       \* client handles constructed and not yet destroyed
    nextH,      \* the next fresh handle identity
    tool_states,\* tool_states.json: server -> tool -> override entry
    last,       \* the last Host operation and what it returned
    rt,         \* progress of an enable; disable; enable sequence on one server
    \* ---- pure functions and single clients ----
    dt,         \* detect_tool: its argument and what it returned
    http,       \* one MCPClient: the file it reads, its construction, its calls
    hs,         \* one MCPStdioClient under construction: the handshake
    bg          \* the thread that run() starts for HOST.start(prewarm=True)

stdioVars == <<out_q, pc, rid, req, nextId, answered, lost, stale>>
hostVars == <<disk, servers, clients, live, nextH, tool_states, last, rt>>
auxVars == <<dt, http, hs, bg>>
vars == <<out_q, pc, rid, req, nextId, answered, lost, stale,
          disk, servers, clients, live, nextH, tool_states, last, rt,
          dt, http, hs, bg>>

(***************************************************************************)
(* MCPStdioClient: lines, parsing, and one iteration of _request's loop.   *)
(***************************************************************************)
Callers == {"c1", "c2"}
ReqIds == 1..MaxReq

\* A line of subprocess output: not JSON ("bad"), JSON that is not an object
\* ("scalar"), or a JSON object whose "id" is id.
Lines == {[kind |-> "bad", id |-> 0], [kind |-> "scalar", id |-> 0]}
         \cup {[kind |-> "obj", id |-> i] : i \in ReqIds}
EmptyLine == [kind |-> "empty", id |-> 0]
Null == [kind |-> "null", id |-> 0]

\* json.loads(s): fails on a line that is not JSON, else yields the value.
json_loads(s) ==
    IF s.kind = "bad" THEN [ok |-> FALSE, isdict |-> FALSE, id |-> 0]
    ELSE [ok |-> TRUE, isdict |-> (s.kind = "obj"), id |-> s.id]

\* One iteration of the `while True` loop of _request once get() has handed
\* over line s: "return" the message, or "continue" with the next get().
RequestStep_NoIdCheck(s, r) ==
    LET msg == json_loads(s) IN
    IF ~msg.ok THEN [do |-> "continue", msg |-> Null, put |-> <<>>]
    ELSE IF msg.isdict THEN [do |-> "return", msg |-> s, put |-> <<>>]
    ELSE [do |-> "continue", msg |-> Null, put |-> <<>>]

RequestStep_Requeue(s, r) ==
    LET msg == json_loads(s) IN
    IF ~msg.ok THEN [do |-> "continue", msg |-> Null, put |-> <<>>]
    ELSE IF msg.isdict /\ msg.id = r THEN [do |-> "return", msg |-> s, put |-> <<>>]
    ELSE [do |-> "continue", msg |-> Null, put |-> <<s>>]

RequestStep_ParseFailReturns(s, r) ==
    LET msg == json_loads(s) IN
    IF ~msg.ok THEN [do |-> "return", msg |-> Null, put |-> <<>>]
    ELSE IF msg.isdict /\ msg.id = r THEN [do |-> "return", msg |-> s, put |-> <<>>]
    ELSE [do |-> "continue", msg |-> Null, put |-> <<>>]

RequestStep(s, r) ==
    LET msg == json_loads(s) IN
    IF ~msg.ok THEN [do |-> "continue", msg |-> Null, put |-> <<>>]
    ELSE IF msg.isdict /\ msg.id = r THEN [do |-> "return", msg |-> s, put |-> <<>>]
    ELSE [do |-> "continue", msg |-> Null, put |-> <<>>]

Waiting == {i \in ReqIds : req[i].st = "waiting"}

InitStdio ==
    /\ out_q = <<>>
    /\ pc = [c \in Callers |-> "idle"]
    /\ rid = [c \in Callers |-> 0]
    /\ req = [i \in ReqIds |-> [st |-> "none", res |-> Null, solo |-> TRUE]]
    /\ nextId = 1
    /\ answered = {}
    /\ lost = {}
    /\ stale = {}

\* _request, lines 376-377: take a fresh id, write the request, start waiting.
Request(c) ==
    /\ pc[c] = "idle"
    /\ nextId <= MaxReq
    /\ pc' = [pc EXCEPT ![c] = "get"]
    /\ rid' = [rid EXCEPT ![c] = nextId]
    /\ req' = [i \in ReqIds |->
                 IF i = nextId
                 THEN [st |-> "waiting", res |-> Null, solo |-> (Waiting = {})]
                 ELSE IF req[i].st = "waiting"
                 THEN [req[i] EXCEPT !.solo = FALSE]
                 ELSE req[i]]
    /\ nextId' = nextId + 1
    /\ UNCHANGED <<out_q, answered, lost, stale>>

\* _reader: the subprocess writes a line; empty lines are dropped, every
\* other line is put on the queue.
Reader(line) ==
    /\ Len(out_q) < MaxQueue
    /\ out_q' = IF line = EmptyLine THEN out_q ELSE Append(out_q, line)
    /\ answered' = IF line.kind = "obj" /\ line.id \in Waiting
                   THEN answered \cup {line.id} ELSE answered
    /\ UNCHANGED <<pc, rid, req, nextId, lost, stale>>

\* get(timeout=self.timeout) raises queue.Empty, which it does only when
\* the queue has stayed empty for the whole timeout: _request returns None.
GetTimeout(c) ==
    /\ pc[c] = "get"
    /\ out_q = <<>>
    /\ pc' = [pc EXCEPT ![c] = "idle"]
    /\ req' = [req EXCEPT ![rid[c]].st = "returned", ![rid[c]].res = Null]
    /\ UNCHANGED <<out_q, rid, nextId, answered, lost, stale>>

\* get() hands over the head of the queue; the loop body decides.
GetItem(c) ==
    /\ pc[c] = "get"
    /\ out_q # <<>>
    /\ LET s == Head(out_q)
           step == RequestStep(s, rid[c])
       IN /\ out_q' = Tail(out_q) \o step.put
          /\ IF step.do = "return"
             THEN /\ pc' = [pc EXCEPT ![c] = "idle"]
                  /\ req' = [req EXCEPT ![rid[c]].st = "returned",
                                        ![rid[c]].res = step.msg]
                  /\ UNCHANGED <<lost, stale>>
             ELSE /\ pc' = pc
                  /\ req' = req
                  /\ lost' = IF s.kind = "obj" /\ s.id \in Waiting \ {rid[c]}
                                /\ step.put = <<>>
                             THEN lost \cup {s.id} ELSE lost
                  /\ stale' = IF s.kind = "obj" /\ s.id \in ReqIds
                                 /\ req[s.id].st = "returned" /\ step.put = <<>>
                              THEN stale \cup {s.id} ELSE stale
    /\ UNCHANGED <<rid, nextId, answered>>


(***************************************************************************)
(* MCPHost: configuration, registry of servers, table of clients.          *)
(***************************************************************************)
Names == {"s1", "s2"}
Order == <<"s1", "s2">>          \* key order of mcpServers{} in the file
\* The values of "type" in an entry: "missing" is an entry without the key,
\* "sse" any value other than "stdio" and "http".
Types == {"http", "stdio", "sse", "missing"}
Tools == {"t1"}

\* An entry of mcpServers{}: its type, its enabled flag, and rev, which stands
\* for its connection settings (url, headers, command, args, env, cwd): two
\* entries with different rev differ in those settings.
NoEntry == [present |-> FALSE, type |-> "http", enabled |-> FALSE, rev |-> 1]
DiskEntries == {[present |-> TRUE, type |-> t, enabled |-> e, rev |-> 1] :
                    t \in Types, e \in BOOLEAN}
\* The configurations considered: "s1" is a stdio server and "s2" an http
\* server whenever the file has them.
TypeOf(n) == IF n = "s1" THEN "stdio" ELSE "http"
Configs == {d \in [Names -> DiskEntries \cup {NoEntry}] :
              \A n \in Names : d[n].present => d[n].type = TypeOf(n)}

NoServer == [present |-> FALSE, enabled |-> FALSE, type |-> "http",
             status |-> "unknown"]

\* load_config: every entry of the file becomes a registry entry with status
\* "unknown"; names that are not in the file are not in the registry.
load_config(d) ==
    [n \in Names |->
        IF d[n].present
        THEN [present |-> TRUE, enabled |-> d[n].enabled, type |-> d[n].type,
              status |-> "unknown"]
        ELSE NoServer]

\* dict operations on self._clients (a dict keeps insertion order).
HasClient(cl, n) == \E i \in 1..Len(cl) : cl[i].name = n
ClientOf(cl, n) == cl[CHOOSE i \in 1..Len(cl) : cl[i].name = n]
DelClient(cl, n) == SelectSeq(cl, LAMBDA x : x.name # n)

\* What survives of a handle once the table no longer refers to it: an
\* MCPClient holds no resource and is collected; an MCPStdioClient's
\* subprocess (and its reader thread) keeps running, nothing calls close().
Dropped(lv, cl, n) ==
    IF HasClient(cl, n) /\ ClientOf(cl, n).kind = "http"
    THEN lv \ {ClientOf(cl, n)} ELSE lv

\* MCPStdioClient._select_entry: the entry called `chosen` if it is a stdio
\* entry, else the first stdio entry of the file, else none ("").
RECURSIVE FirstStdio(_, _)
FirstStdio(d, i) ==
    IF i > Len(Order) THEN ""
    ELSE IF d[Order[i]].present /\ d[Order[i]].type = "stdio" THEN Order[i]
    ELSE FirstStdio(d, i + 1)

_select_entry(d, chosen) ==
    IF d[chosen].present /\ d[chosen].type = "stdio" THEN chosen
    ELSE FirstStdio(d, 1)

\* MCPClient._resolve_server_config: the entry called `chosen`, else the
\* first entry of the file (keys[0]); "" when mcpServers is empty.
RECURSIVE FirstKey(_, _)
FirstKey(d, i) ==
    IF i > Len(Order) THEN ""
    ELSE IF d[Order[i]].present THEN Order[i]
    ELSE FirstKey(d, i + 1)

_resolve_server_config(d, chosen) ==
    IF d[chosen].present THEN chosen ELSE FirstKey(d, 1)

\* How a construction can end: "ok", "err" (MCPClientError) or "exc" (any
\* other exception, which `except MCPClientError` does not catch).
Outcomes == {"ok", "err", "exc"}
PossibleOutcomes(d, n, typ) ==
    IF typ = "stdio"
    THEN IF _select_entry(d, n) = "" THEN {"err"} ELSE {"ok", "err", "exc"}
    ELSE IF _resolve_server_config(d, n) = "" THEN {"exc"} ELSE {"ok", "err"}

\* The class of the client constructed for a registry entry of type typ
\* (typ = str(type), or "http" without a type; MCPStdioClient exactly for
\* "stdio", else MCPClient).
client_kind_MissingIsStdio(typ) ==
    IF typ \in {"stdio", "missing"} THEN "stdio" ELSE "http"

client_kind(typ) == IF typ = "stdio" THEN "stdio" ELSE "http"

\* A new client: it reads the entry src of the file once, at construction,
\* and keeps the settings it read (rev).
NewHandle(H, d, n, typ) ==
    LET src == IF typ = "stdio" THEN _select_entry(d, n)
               ELSE _resolve_server_config(d, n)
    IN [name |-> n, h |-> H.nextH, kind |-> client_kind(typ), src |-> src,
        rev |-> d[src].rev]

\* self._clients[name] = Client(...); self._servers[name]["status"] = "running"
Construct(H, d, n, typ) ==
    LET hd == NewHandle(H, d, n, typ) IN
    [servers |-> [H.servers EXCEPT ![n].status = "running"],
     clients |-> Append(H.clients, hd),
     live |-> H.live \cup {hd},
     nextH |-> H.nextH + 1]

SetStatus(H, n, st) == [H EXCEPT !.servers[n].status = st]

Host == [servers |-> servers, clients |-> clients, live |-> live, nextH |-> nextH]

\* enable_server(name), with `out` the way the construction ends if one is
\* attempted.  ret: "True", "False", or "raise".
enable_server(H, d, n, out) ==
    IF ~H.servers[n].present THEN [H |-> H, ret |-> "False", out |-> "none"]
    ELSE LET H1 == [H EXCEPT !.servers[n].enabled = TRUE] IN
         IF ~HasClient(H1.clients, n)
         THEN CASE out = "ok" ->
                     [H |-> Construct(H1, d, n, H1.servers[n].type),
                      ret |-> "True", out |-> out]
                [] out = "err" ->
                     [H |-> SetStatus(H1, n, "down"), ret |-> "False", out |-> out]
                [] OTHER -> [H |-> H1, ret |-> "raise", out |-> out]
         ELSE [H |-> H1, ret |-> "True", out |-> "none"]

disable_server_KeepsStatus(H, n) ==
    IF ~H.servers[n].present THEN [H |-> H, ret |-> "False"]
    ELSE [H |-> [H EXCEPT !.servers[n].enabled = FALSE,
                          !.clients = DelClient(H.clients, n),
                          !.live = Dropped(H.live, H.clients, n)],
          ret |-> "True"]

disable_server_KeepsClient(H, n) ==
    IF ~H.servers[n].present THEN [H |-> H, ret |-> "False"]
    ELSE [H |-> [H EXCEPT !.servers[n].enabled = FALSE,
                          !.servers[n].status = "disabled"],
          ret |-> "True"]

\* disable_server(name)
disable_server(H, n) ==
    IF ~H.servers[n].present THEN [H |-> H, ret |-> "False"]
    ELSE [H |-> [H EXCEPT !.servers[n].enabled = FALSE,
                          !.servers[n].status = "disabled",
                          !.clients = DelClient(H.clients, n),
                          !.live = Dropped(H.live, H.clients, n)],
          ret |-> "True"]

\* start, lines 88-101: what start does with the client it has just stored
\* for n: one list_tools() call on a stdio client when prewarm is set,
\* nothing otherwise.  (The call is inside try/except Exception and changes
\* no Host state.)
Prewarm_EveryClient(prewarm, typ, n) ==
    IF prewarm THEN <<[ev |-> "tools/list", to |-> n]>> ELSE <<>>

Prewarm(prewarm, typ, n) ==
    IF prewarm /\ client_kind(typ) = "stdio"
    THEN <<[ev |-> "tools/list", to |-> n]>> ELSE <<>>

\* start(): every enabled server without a client gets one construction;
\* outs[n] is the way the construction for n ends.  sent is what start has
\* done with clients so far, in order: "new" for a client constructed and
\* stored, "tools/list" for a list_tools() call on it.
RECURSIVE StartFrom(_, _, _, _, _, _)
StartFrom(H, d, i, outs, prewarm, sent) ==
    IF i > Len(Order) THEN [H |-> H, ret |-> "None", sent |-> sent]
    ELSE LET n == Order[i] IN
         IF ~H.servers[n].present \/ ~H.servers[n].enabled
              \/ HasClient(H.clients, n)
         THEN StartFrom(H, d, i + 1, outs, prewarm, sent)
         ELSE CASE outs[n] = "ok" ->
                     StartFrom(Construct(H, d, n, H.servers[n].type), d, i + 1,
                               outs, prewarm,
                               sent \o <<[ev |-> "new", to |-> n]>>
                                    \o Prewarm(prewarm, H.servers[n].type, n))
                [] outs[n] = "err" ->
                     StartFrom(SetStatus(H, n, "down"), d, i + 1, outs, prewarm,
                               sent)
                [] OTHER -> [H |-> H, ret |-> "raise", sent |-> sent]

start(H, d, outs, prewarm) == StartFrom(H, d, 1, outs, prewarm, <<>>)

\* What a client's list_tools() gives the Host: a catalog, or an exception.
ClientResults == {[tools |-> T, raised |-> FALSE] : T \in SUBSET Tools}
                 \cup {[tools |-> {}, raised |-> TRUE]}

\* list_tools(name): ret is "ok" (the client's catalog), "empty" (the empty
\* catalog with remote_enabled = False) or "raise".
list_tools(H, d, n, out, res) ==
    IF ~H.servers[n].present \/ ~H.servers[n].enabled
    THEN [H |-> H, ret |-> "empty", tools |-> {}, out |-> "none"]
    ELSE LET e == IF HasClient(H.clients, n)
                  THEN [H |-> H, ret |-> "True", out |-> "none"]
                  ELSE enable_server(H, d, n, out)
         IN CASE e.ret = "raise" ->
                   [H |-> e.H, ret |-> "raise", tools |-> {}, out |-> e.out]
              [] e.ret = "False" ->
                   [H |-> e.H, ret |-> "empty", tools |-> {}, out |-> e.out]
              [] OTHER ->
                   IF res.raised
                   THEN [H |-> e.H, ret |-> "empty", tools |-> {}, out |-> e.out]
                   ELSE [H |-> e.H, ret |-> "ok", tools |-> res.tools, out |-> e.out]

\* call_server_tool(name, tool): res is what client.call_tool gives: "value",
\* "null" (None) or "raised".  ret: "value", "null" or "raise".
call_server_tool(H, d, n, out, res) ==
    IF ~H.servers[n].present \/ ~H.servers[n].enabled
    THEN [H |-> H, ret |-> "null", out |-> "none", called |-> FALSE]
    ELSE LET e == IF HasClient(H.clients, n)
                  THEN [H |-> H, ret |-> "True", out |-> "none"]
                  ELSE enable_server(H, d, n, out)
         IN CASE e.ret = "raise" ->
                   [H |-> e.H, ret |-> "raise", out |-> e.out, called |-> FALSE]
              [] e.ret = "False" ->
                   [H |-> e.H, ret |-> "null", out |-> e.out, called |-> FALSE]
              [] OTHER ->
                   [H |-> e.H, ret |-> IF res = "value" THEN "value" ELSE "null",
                    out |-> e.out, called |-> TRUE]

\* health_check(name): targets in order; pings[n] says whether server n
\* answers the requests it is sent, which for an MCPClient is what ping()
\* gives.  MCPStdioClient defines no ping: the call raises AttributeError,
\* which `except Exception` turns into "down", whatever the server does.
\* rep is the result map ("-": no entry), pinged the servers whose client's
\* ping was called.
NoRep == [n \in Names |-> "-"]

RECURSIVE HealthFrom_ProbesDisabled(_, _, _, _, _, _, _, _)
HealthFrom_ProbesDisabled(H, d, targets, i, outs, pings, rep, pinged) ==
    IF i > Len(targets)
    THEN [H |-> H, ret |-> "None", rep |-> rep, pinged |-> pinged]
    ELSE LET n == targets[i] IN
         IF ~H.servers[n].present
         THEN HealthFrom_ProbesDisabled(H, d, targets, i + 1, outs, pings,
                                        [rep EXCEPT ![n] = "missing"], pinged)
         ELSE LET e == IF HasClient(H.clients, n) \/ ~H.servers[n].enabled
                       THEN [H |-> H, ret |-> "True", out |-> "none"]
                       ELSE enable_server(H, d, n, outs[n])
              IN CASE e.ret = "raise" ->
                        [H |-> e.H, ret |-> "raise", rep |-> NoRep, pinged |-> pinged]
                   [] e.ret = "False" ->
                        HealthFrom_ProbesDisabled(e.H, d, targets, i + 1, outs, pings,
                                                  [rep EXCEPT ![n] = "down"], pinged)
                   [] OTHER ->
                        LET ok == /\ HasClient(e.H.clients, n)
                                  /\ ClientOf(e.H.clients, n).kind = "http"
                                  /\ pings[n]
                            st == IF ok THEN "running" ELSE "down"
                        IN HealthFrom_ProbesDisabled(
                               SetStatus(e.H, n, st), d, targets, i + 1,
                               outs, pings, [rep EXCEPT ![n] = st],
                               pinged \cup {n})

RECURSIVE HealthFrom(_, _, _, _, _, _, _, _)
HealthFrom(H, d, targets, i, outs, pings, rep, pinged) ==
    IF i > Len(targets)
    THEN [H |-> H, ret |-> "None", rep |-> rep, pinged |-> pinged]
    ELSE LET n == targets[i] IN
         IF ~H.servers[n].present
         THEN HealthFrom(H, d, targets, i + 1, outs, pings,
                         [rep EXCEPT ![n] = "missing"], pinged)
         ELSE IF ~H.servers[n].enabled
         THEN HealthFrom(H, d, targets, i + 1, outs, pings,
                         [rep EXCEPT ![n] = "disabled"], pinged)
         ELSE LET e == IF HasClient(H.clients, n)
                       THEN [H |-> H, ret |-> "True", out |-> "none"]
                       ELSE enable_server(H, d, n, outs[n])
              IN CASE e.ret = "raise" ->
                        [H |-> e.H, ret |-> "raise", rep |-> NoRep, pinged |-> pinged]
                   [] e.ret = "False" ->
                        HealthFrom(e.H, d, targets, i + 1, outs, pings,
                                   [rep EXCEPT ![n] = "down"], pinged)
                   [] OTHER ->
                        LET ok == ClientOf(e.H.clients, n).kind = "http" /\ pings[n]
                            st == IF ok THEN "running" ELSE "down"
                        IN HealthFrom(SetStatus(e.H, n, st), d, targets, i + 1,
                                      outs, pings, [rep EXCEPT ![n] = st],
                                      pinged \cup {n})

\* targets = [name] if name else list(self._servers.keys())
PresentOrder(S) == SelectSeq(Order, LAMBDA n : S[n].present)

health_check(H, d, target, outs, pings) ==
    HealthFrom(H, d, IF target = "*" THEN PresentOrder(H.servers) ELSE <<target>>,
               1, outs, pings, NoRep, {})

\* reload_config, first loop (lines 392-398) over a snapshot of the table:
\* a client whose server is gone or disabled is deleted and the server marked
\* "disabled"; for a server that is gone, self._servers[name] raises KeyError
\* (line 398), which ends reload_config.
RECURSIVE ReloadDrop_All(_, _, _)
ReloadDrop_All(H, snap, i) ==
    IF i > Len(snap) THEN [H |-> H, ret |-> "None"]
    ELSE LET n == snap[i].name
             H1 == [H EXCEPT !.clients = DelClient(H.clients, n),
                             !.live = Dropped(H.live, H.clients, n)]
         IN IF ~H.servers[n].present THEN [H |-> H1, ret |-> "KeyError"]
            ELSE IF ~H.servers[n].enabled
            THEN ReloadDrop_All(SetStatus(H1, n, "disabled"), snap, i + 1)
            ELSE ReloadDrop_All(H1, snap, i + 1)

RECURSIVE ReloadDrop(_, _, _)
ReloadDrop(H, snap, i) ==
    IF i > Len(snap) THEN [H |-> H, ret |-> "None"]
    ELSE LET n == snap[i].name IN
         IF ~H.servers[n].present \/ ~H.servers[n].enabled
         THEN LET H1 == [H EXCEPT !.clients = DelClient(H.clients, n),
                                  !.live = Dropped(H.live, H.clients, n)]
              IN IF ~H.servers[n].present THEN [H |-> H1, ret |-> "KeyError"]
                 ELSE ReloadDrop(SetStatus(H1, n, "disabled"), snap, i + 1)
         ELSE ReloadDrop(H, snap, i + 1)

\* reload_config, second loop (lines 399-409).
RECURSIVE ReloadCreate(_, _, _, _)
ReloadCreate(H, d, i, outs) ==
    IF i > Len(Order) THEN [H |-> H, ret |-> "None"]
    ELSE LET n == Order[i] IN
         IF H.servers[n].present /\ H.servers[n].enabled /\ ~HasClient(H.clients, n)
         THEN CASE outs[n] = "ok" ->
                     ReloadCreate(Construct(H, d, n, H.servers[n].type), d, i + 1, outs)
                [] outs[n] = "err" ->
                     ReloadCreate(SetStatus(H, n, "down"), d, i + 1, outs)
                [] OTHER -> [H |-> H, ret |-> "raise"]
         ELSE ReloadCreate(H, d, i + 1, outs)

reload_config(H, d, outs) ==
    LET H1 == [H EXCEPT !.servers = load_config(d)]
        r1 == ReloadDrop(H1, H.clients, 1)
    IN IF r1.ret # "None" THEN r1 ELSE ReloadCreate(r1.H, d, 1, outs)

(***************************************************************************)
(* The tool override document and the aggregate registry.                  *)
(***************************************************************************)
\* An entry of states[server]["tools"]: absent (in = FALSE), or a dict with
\* or without the key "turn-on" and with or without the key "note".
NoOverride == [in |-> FALSE, turn_on |-> "missing", note |-> FALSE]
Overrides == {NoOverride}
             \cup {[in |-> TRUE, turn_on |-> v, note |-> b] :
                     v \in {"true", "false"}, b \in BOOLEAN}
             \cup {[in |-> TRUE, turn_on |-> "missing", note |-> TRUE]}

\* bool(v.get("turn-on")): a missing key gives None, and bool(None) is False.
PyBool(v) == v = "true"

\* POST /api/server/{name}/tools/toggle: the entry is replaced.
tools_toggle(e, enabled) ==
    [in |-> TRUE, turn_on |-> IF enabled THEN "true" ELSE "false", note |-> FALSE]

\* POST /api/server/{name}/tools/note: the note is set on the entry, which is
\* created when missing.
tools_note(e) == [in |-> TRUE, turn_on |-> e.turn_on, note |-> TRUE]

Included_Always(e) == TRUE

Included_OnlyListed(e) == e.in /\ PyBool(e.turn_on)

\* list_all_tools, lines 221-229: is the tool put into the registry?
Included(e) == IF e.in THEN PyBool(e.turn_on) ELSE TRUE

\* list_servers(): the enabled servers, in registry order.
list_servers(S) == SelectSeq(Order, LAMBDA n : S[n].present /\ S[n].enabled)

NoReg == [t \in Tools |-> "-"]
NoCats == [n \in Names |-> {}]

\* list_all_tools(): results[n] is what the client of n answers to
\* list_tools; reg maps a tool name to its owning server ("-": no entry),
\* cats records the catalog each server gave.
RECURSIVE ListFrom(_, _, _, _, _, _, _, _, _)
ListFrom(H, d, srv, i, outs, results, ts, reg, cats) ==
    IF i > Len(srv) THEN [H |-> H, ret |-> "ok", reg |-> reg, cats |-> cats]
    ELSE LET n == srv[i]
             lt == list_tools(H, d, n, outs[n], results[n])
         IN IF lt.ret = "raise"
            THEN [H |-> lt.H, ret |-> "raise", reg |-> NoReg, cats |-> NoCats]
            ELSE ListFrom(lt.H, d, srv, i + 1, outs, results, ts,
                          [t \in Tools |->
                              IF t \in lt.tools /\ Included(ts[n][t])
                              THEN n ELSE reg[t]],
                          [cats EXCEPT ![n] = lt.tools])

list_all_tools(H, d, outs, results, ts) ==
    ListFrom(H, d, list_servers(H.servers), 1, outs, results, ts, NoReg, NoCats)

\* A tool directive: `name` ("" when the key is missing or empty) and the
\* optional `server` hint ("" when missing).  UnknownTool is a name that no
\* server exposes, UnknownServer a name that is not in the configuration.
UnknownTool == "tx"
UnknownServer == "sx"
Directives == [name : Tools \cup {UnknownTool, ""},
               server : Names \cup {UnknownServer, ""}]

\* call_tool, lines 313-315: the owner of `name` in the registry ("-": the
\* name is not in the registry).
Resolve(reg, name) == IF name \in Tools THEN reg[name] ELSE "-"

\* call_tool, lines 306-315: up to the choice of the server.  ret: "no_name",
\* "not_found" (the two error objects that carry the directive), "raise"
\* (list_all_tools is called outside the try) or "go" with the server.
call_tool_server(H, d, sp, outs, results, ts) ==
    IF sp.name = ""
    THEN [H |-> H, ret |-> "no_name", server |-> "", reg |-> NoReg]
    ELSE IF sp.server # ""
    THEN [H |-> H, ret |-> "go", server |-> sp.server, reg |-> NoReg]
    ELSE LET r == list_all_tools(H, d, outs, results, ts) IN
         IF r.ret = "raise"
         THEN [H |-> r.H, ret |-> "raise", server |-> "", reg |-> NoReg]
         ELSE IF Resolve(r.reg, sp.name) = "-"
         THEN [H |-> r.H, ret |-> "not_found", server |-> "", reg |-> r.reg]
         ELSE [H |-> r.H, ret |-> "go", server |-> Resolve(r.reg, sp.name),
               reg |-> r.reg]

\* call_tool(spec): k is what lines 306-315 gave; out and res are the inputs
\* of call_server_tool.  ret: "result" ({"name", "server", "result": value}),
\* "result_null" ({"name", "server", "result": null}), "error" ({"name",
\* "server", "error": message}), "no_name" or "not_found" ({"error", "spec"}),
\* or "raise".  called: a tools/call request went to a client.
call_tool(k, d, sp, out, res) ==
    IF k.ret # "go"
    THEN [H |-> k.H, ret |-> k.ret, server |-> "", reg |-> k.reg,
          called |-> FALSE, out |-> "none"]
    ELSE LET c == IF k.server \in Names
                  THEN call_server_tool(k.H, d, k.server, out, res)
                  ELSE [H |-> k.H, ret |-> "null", out |-> "none",
                        called |-> FALSE]
         IN [H |-> c.H,
             ret |-> CASE c.ret = "raise" -> "error"
                       [] c.ret = "null" -> "result_null"
                       [] OTHER -> "result",
             server |-> k.server, reg |-> k.reg, called |-> c.called,
             out |-> c.out]

(***************************************************************************)
(* detect_tool: the text is a sequence of tokens, each a piece of text that *)
(* the pattern of line 295 reads as a whole.                                *)
(***************************************************************************)
OpenTags == {"<tool>", "<TOOL>"}
CloseTags == {"</tool>", "</Tool>"}
Ws == " "
GoodObjects == {"{\"name\":\"x\"}", "{\"name\":\"y\",\"parameters\":{}}"}
EmptyObject == "{}"

\* Does the token begin with "{", does it end with "}"?  "{oops}" and "{oops"
\* are not JSON; "{\"a\":\"}" and "\"}" are the two parts of the object
\* {"a":"}</tool>"}, whose string value holds a closing tag.
StartsBrace(tok) ==
    tok \in GoodObjects \cup {EmptyObject, "{oops}", "{oops", "{\"a\":\"}"}
EndsBrace(tok) ==
    tok \in GoodObjects \cup {EmptyObject, "{oops}", "{\"a\":\"}", "\"}"}

\* The texts detect_tool is given: up to MaxPieces pieces in a row.
Pieces ==
    {<<"x">>, <<"<tool>">>, <<"</tool>">>, <<"{\"name\":\"x\"}">>,
     <<"<tool>", "x", "</tool>">>,
     <<"<tool>", "{oops}", "</tool>">>,
     <<"<tool>", "{oops">>,
     <<"<tool>", EmptyObject, "</tool>">>,
     <<"<tool>", "{\"a\":\"}", "</tool>", "\"}", "</tool>">>,
     <<"<tool>", "{\"name\":\"x\"}", "</tool>">>,
     <<"<TOOL>", Ws, "{\"name\":\"y\",\"parameters\":{}}", Ws, "</Tool>">>}

RECURSIVE TextsOf(_)
TextsOf(k) ==
    IF k = 0 THEN {<<>>}
    ELSE TextsOf(k - 1) \cup {t \o p : t \in TextsOf(k - 1), p \in Pieces}

\* \s* from position i on: the first position that holds no whitespace.
RECURSIVE SkipWs(_, _)
SkipWs(t, i) == IF i <= Len(t) /\ t[i] = Ws THEN SkipWs(t, i + 1) ELSE i

\* \s*</tool> from position i on.
ClosesAt(t, i) == SkipWs(t, i) <= Len(t) /\ t[SkipWs(t, i)] \in CloseTags

\* (\{[\s\S]*?\})\s*</tool> with the group starting at j: the group ends at
\* the first "}" that whitespace and a closing tag follow (0: there is none).
RECURSIVE GroupEnd(_, _)
GroupEnd(t, k) ==
    IF k > Len(t) THEN 0
    ELSE IF EndsBrace(t[k]) /\ ClosesAt(t, k + 1) THEN k
    ELSE GroupEnd(t, k + 1)

\* The pattern matched at position i: <tool>, \s*, and the group.
MatchAt(t, i) ==
    /\ t[i] \in OpenTags
    /\ SkipWs(t, i + 1) <= Len(t)
    /\ StartsBrace(t[SkipWs(t, i + 1)])
    /\ GroupEnd(t, SkipWs(t, i + 1)) # 0

GroupAt(t, i) == SubSeq(t, SkipWs(t, i + 1), GroupEnd(t, SkipWs(t, i + 1)))

re_search_Last(t) ==
    IF \E i \in 1..Len(t) : MatchAt(t, i)
    THEN GroupAt(t, CHOOSE i \in 1..Len(t) :
                        MatchAt(t, i) /\ \A k \in (i + 1)..Len(t) : ~MatchAt(t, k))
    ELSE <<>>

\* re.search(pattern, text, re.IGNORECASE): group 1 of the leftmost match
\* (<<>>: no match).
re_search(t) ==
    IF \E i \in 1..Len(t) : MatchAt(t, i)
    THEN GroupAt(t, CHOOSE i \in 1..Len(t) :
                        MatchAt(t, i) /\ \A k \in 1..(i - 1) : ~MatchAt(t, k))
    ELSE <<>>

\* json.loads(m.group(1)) inside try/except: the object, or {} when the
\* group is not JSON.
LoadsGroup(g) ==
    IF Len(g) = 1 /\ g[1] \in GoodObjects \cup {EmptyObject} THEN g[1]
    ELSE EmptyObject

detect_tool_FoundOnMatch(isstr, t) ==
    IF ~isstr THEN [found |-> FALSE, spec |-> EmptyObject]
    ELSE IF re_search(t) = <<>> THEN [found |-> FALSE, spec |-> EmptyObject]
    ELSE [found |-> TRUE, spec |-> LoadsGroup(re_search(t))]

\* detect_tool(text): (bool(spec), spec).
detect_tool(isstr, t) ==
    IF ~isstr THEN [found |-> FALSE, spec |-> EmptyObject]
    ELSE IF re_search(t) = <<>> THEN [found |-> FALSE, spec |-> EmptyObject]
    ELSE [found |-> LoadsGroup(re_search(t)) # EmptyObject,
          spec |-> LoadsGroup(re_search(t))]

NoDetect == [isstr |-> TRUE, text |-> <<>>, done |-> FALSE, found |-> FALSE,
             spec |-> EmptyObject]

DetectTool ==
    /\ ~dt.done
    /\ \E r \in {detect_tool(dt.isstr, dt.text)} :
          dt' = [dt EXCEPT !.done = TRUE, !.found = r.found, !.spec = r.spec]
    /\ UNCHANGED <<http, hs, bg>>

(***************************************************************************)
(* MCPClient: construction from the configuration file, and one HTTP        *)
(* exchange per operation.                                                  *)
(***************************************************************************)
\* An entry of mcpServers{} as MCPClient reads it: is there one, and has it
\* a non-empty "url"?
NoUrlEntry == [present |-> FALSE, url |-> FALSE]
UrlEntries == {NoUrlEntry} \cup {[present |-> TRUE, url |-> u] : u \in BOOLEAN}

\* MCPClient(server_name = chosen): env says whether MCP_CONNECTION_URL or
\* MCP_SERVER_URL is set.  With an empty mcpServers{} _resolve_server_config
\* returns None and the unpacking at line 65 raises TypeError.  bound is the
\* entry whose url the client uses ("env": the url of the environment).
MCPClient_init(cfg, chosen, env) ==
    LET sel == _resolve_server_config(cfg, chosen) IN
    IF sel = "" THEN [phase |-> "failed", err |-> "TypeError", bound |-> ""]
    ELSE IF cfg[sel].url
    THEN [phase |-> "constructed", err |-> "", bound |-> sel]
    ELSE IF env THEN [phase |-> "constructed", err |-> "", bound |-> "env"]
    ELSE [phase |-> "failed", err |-> "MCPClientError", bound |-> ""]

\* What requests.post gives: a network failure (requests.RequestException),
\* or a response with a status code and a body.  Bodies: not JSON; JSON null;
\* a JSON value that is no object; an object without "result" (a JSON-RPC
\* error); an object whose "result" is null, a string, {} or an object with
\* the key asked for.
Bodies == {"nonjson", "null", "scalar", "noresult", "result_null",
           "result_str", "result_empty", "result_obj"}
Responses == {[kind |-> "neterr", status |-> 0, body |-> "nonjson"]}
             \cup {[kind |-> "resp", status |-> st, body |-> b] :
                     st \in {200, 500}, b \in Bodies}

IsFailure(r) == r.kind = "neterr" \/ r.status # 200 \/ r.body = "nonjson"

\* list_tools / list_prompts / list_resources: "empty" ([] under the key),
\* "none" (None under the key), "list", or "raise" (AttributeError from
\* .get on a "result" that is no object, which no except clause catches).
list_op(r) ==
    IF IsFailure(r) THEN "empty"
    ELSE CASE r.body \in {"null", "scalar"} -> "empty"
           [] r.body \in {"noresult", "result_empty"} -> "none"
           [] r.body \in {"result_null", "result_str"} -> "raise"
           [] OTHER -> "list"

\* _call: "null" (None) or "value".
_call(r) ==
    IF IsFailure(r) THEN "null"
    ELSE IF r.body \in {"null", "result_null", "result_empty"} THEN "null"
    ELSE "value"

\* ping: bool(self.call_tool(...)) inside try/except Exception.
ping(r) == IF _call(r) = "value" THEN "True" ELSE "False"

NoHttp == [cfg |-> [n \in Names |-> NoUrlEntry], env |-> FALSE,
           chosen |-> "", phase |-> "none", err |-> "", bound |-> "",
           op |-> "", resp |-> [kind |-> "neterr", status |-> 0, body |-> "nonjson"],
           ret |-> ""]

HttpConstruct(chosen) ==
    /\ http.phase = "none"
    /\ \E r \in {MCPClient_init(http.cfg, chosen, http.env)} :
          http' = [http EXCEPT !.chosen = chosen, !.phase = r.phase,
                               !.err = r.err, !.bound = r.bound]
    /\ UNCHANGED <<dt, hs, bg>>

HttpOp(op, r) ==
    /\ http.phase = "constructed"
    /\ http' = [http EXCEPT !.op = op, !.resp = r,
                            !.ret = CASE op = "call_tool" -> _call(r)
                                      [] op = "ping" -> ping(r)
                                      [] OTHER -> list_op(r)]
    /\ UNCHANGED <<dt, hs, bg>>

(***************************************************************************)
(* MCPStdioClient.__init__: the handshake of one client, constructed by     *)
(* start or by enable_server, and the requests the Host sends it afterwards. *)
(***************************************************************************)
\* The request ids: the initialize request has InitId, the k-th line written
\* has id k (uuid4 never repeats).
InitId == 1

\* The lines of the subprocess: not JSON; an object with an id of its own (a
\* notification, a log record); the answer to a later request; an object with
\* the id of the initialize request and the key "result", "error" or neither.
\* late: the line arrived more than `timeout` after initialize was written.
NoLine == [kind |-> "null", id |-> 0, key |-> "", late |-> FALSE]
HsLines == {[kind |-> "bad", id |-> 0, key |-> "", late |-> FALSE],
            [kind |-> "obj", id |-> 0, key |-> "result", late |-> FALSE]}
           \cup {[kind |-> "obj", id |-> i, key |-> "result", late |-> FALSE] :
                    i \in 2..MaxLog}
           \cup {[kind |-> "obj", id |-> InitId, key |-> k, late |-> FALSE] :
                    k \in {"result", "error", ""}}

NoHandshake == [phase |-> "none", by |-> "", wlog |-> <<>>, q |-> <<>>,
                late |-> FALSE, restarted |-> FALSE, got |-> NoLine,
                stored |-> FALSE, status |-> "unknown", proc |-> "none"]

\* Lines 265-274: resp is what _request returned (NoLine: None).
InitializeOk(resp) == resp # NoLine /\ resp.key \in {"result", "error"}

\* The constructor is entered (by start or by enable_server, for a server
\* without client): the entry is selected, the subprocess started and the
\* initialize request written ("sent"), or _select_entry / _start raise
\* MCPClientError ("err"), or Popen or the write raise something else ("exc").
\* proc: "running" once Popen has returned the subprocess of this client
\* (line 341), until something terminates it.
HsConstruct(by, out) ==
    /\ hs.phase \in {"none", "failed", "broken"}
    /\ hs' = CASE out = "sent" ->
                    [NoHandshake EXCEPT !.phase = "init", !.by = by,
                                        !.wlog = <<"initialize">>,
                                        !.proc = "running"]
               [] out = "err" ->
                    [NoHandshake EXCEPT !.phase = "failed", !.by = by,
                                        !.status = "down"]
               [] OTHER ->
                    [NoHandshake EXCEPT !.phase = "broken", !.by = by,
                                        !.status = hs.status]
    /\ UNCHANGED <<dt, http, bg>>

\* _reader: the subprocess writes a line.
HsReader(line) ==
    /\ hs.phase \in {"init", "wait", "ready"}
    /\ Len(hs.q) < MaxQueue
    /\ hs' = [hs EXCEPT !.q = Append(@, [line EXCEPT !.late =
                                  hs.late /\ line.id = InitId])]
    /\ UNCHANGED <<dt, http, bg>>

\* More than `timeout` has passed since initialize was written.  The get()
\* in progress has not raised: it started when the last line was handed over.
HsTimeoutPasses ==
    /\ hs.phase = "init"
    /\ hs.restarted
    /\ ~hs.late
    /\ hs' = [hs EXCEPT !.late = TRUE]
    /\ UNCHANGED <<dt, http, bg>>

\* What the constructor and its caller do with resp, the value _request
\* returned for initialize: the client is stored with status "running", and
\* start writes its prewarm tools/list; or MCPClientError("Initialize
\* failed") is raised, caught, and the status set to "down"; nothing calls
\* close() on the client that failed.
AfterInitialize(h, resp) ==
    IF InitializeOk(resp)
    THEN IF h.by = "start"
         THEN [h EXCEPT !.phase = "wait", !.got = resp, !.stored = TRUE,
                        !.status = "running",
                        !.wlog = Append(@, "tools/list")]
         ELSE [h EXCEPT !.phase = "ready", !.got = resp, !.stored = TRUE,
                        !.status = "running"]
    ELSE [h EXCEPT !.phase = "failed", !.got = resp, !.status = "down"]

\* get() raises queue.Empty: _request returns None.
HsGetTimeout ==
    /\ hs.phase \in {"init", "wait"}
    /\ hs.q = <<>>
    /\ hs' = IF hs.phase = "init" THEN AfterInitialize(hs, NoLine)
             ELSE [hs EXCEPT !.phase = "ready"]
    /\ UNCHANGED <<dt, http, bg>>

\* get() hands over a line to the loop of _request, which awaits the id of
\* the line written last.
HsGetItem ==
    /\ hs.phase \in {"init", "wait"}
    /\ hs.q # <<>>
    /\ \E step \in {RequestStep(Head(hs.q), Len(hs.wlog))} :
          hs' = IF step.do = "return"
                THEN IF hs.phase = "init"
                     THEN AfterInitialize([hs EXCEPT !.q = Tail(@)], step.msg)
                     ELSE [hs EXCEPT !.q = Tail(@), !.phase = "ready"]
                ELSE [hs EXCEPT !.q = Tail(@), !.restarted = TRUE]
    /\ UNCHANGED <<dt, http, bg>>

\* The Host calls an operation of the stored client: one request is written.
HsRequest(m) ==
    /\ hs.phase = "ready"
    /\ hs.stored
    /\ Len(hs.wlog) < MaxLog
    /\ hs' = [hs EXCEPT !.phase = "wait", !.wlog = Append(@, m)]
    /\ UNCHANGED <<dt, http, bg>>

(***************************************************************************)
(* run(): HOST.start(prewarm=True) runs in a thread of its own while the    *)
(* HTTPServer handles requests, one at a time, on the main thread; MCPHost  *)
(* has no lock.  The start thread is taken one statement at a time where    *)
(* it can be overtaken: its check (lines 76-79), the construction, which    *)
(* blocks on the subprocess or reads the file (82-85), and the assignment   *)
(* to the table and the status (86-87).  A handler runs as a whole between  *)
(* two of these steps.                                                      *)
(***************************************************************************)
NoHandle == [name |-> "", h |-> 0, kind |-> "http", src |-> "", rev |-> 1]
NoThread == [pc |-> "none", i |-> 1, hd |-> NoHandle]

\* self._clients[name] = client: a dict assignment replaces the value of a
\* key that is there and appends a key that is not.
SetClient(cl, hd) ==
    IF HasClient(cl, hd.name)
    THEN [k \in 1..Len(cl) |-> IF cl[k].name = hd.name THEN hd ELSE cl[k]]
    ELSE Append(cl, hd)

\* start, lines 75-79: the loop takes the next server and skips it when it
\* is not enabled or has a client.
BgCheck ==
    /\ bg.pc = "check"
    /\ bg' = IF bg.i > Len(Order) THEN [bg EXCEPT !.pc = "done"]
             ELSE IF \/ ~servers[Order[bg.i]].present
                     \/ ~servers[Order[bg.i]].enabled
                     \/ HasClient(clients, Order[bg.i])
             THEN [bg EXCEPT !.i = @ + 1]
             ELSE [bg EXCEPT !.pc = "construct"]
    /\ UNCHANGED <<disk, servers, clients, live, nextH, tool_states, last, rt>>

\* start, lines 80-85 and 102-103: the constructor returns the client, or
\* raises MCPClientError (status down, next server), or raises something
\* else, which ends start (and the thread, host_server.py 629-632).
BgConstruct(out) ==
    /\ bg.pc = "construct"
    /\ nextH <= MaxHandles
    /\ out \in PossibleOutcomes(disk, Order[bg.i], servers[Order[bg.i]].type)
    /\ \E hd \in {NewHandle(Host, disk, Order[bg.i], servers[Order[bg.i]].type)} :
          CASE out = "ok" ->
                  /\ bg' = [bg EXCEPT !.pc = "store", !.hd = hd]
                  /\ live' = live \cup {hd}
                  /\ nextH' = nextH + 1
                  /\ servers' = servers
            [] out = "err" ->
                  /\ bg' = [bg EXCEPT !.pc = "check", !.i = @ + 1]
                  /\ servers' = [servers EXCEPT ![Order[bg.i]].status = "down"]
                  /\ UNCHANGED <<live, nextH>>
            [] OTHER ->
                  /\ bg' = [bg EXCEPT !.pc = "done"]
                  /\ UNCHANGED <<servers, live, nextH>>
    /\ UNCHANGED <<disk, clients, tool_states, last, rt>>

\* start, lines 86-101: the client is stored, the status set to running
\* (the prewarm call changes no Host state), and the loop goes on.
BgStore ==
    /\ bg.pc = "store"
    /\ clients' = SetClient(clients, bg.hd)
    /\ live' = Dropped(live, clients, bg.hd.name)
    /\ servers' = [servers EXCEPT ![bg.hd.name].status = "running"]
    /\ bg' = [pc |-> "check", i |-> bg.i + 1, hd |-> NoHandle]
    /\ UNCHANGED <<disk, nextH, tool_states, last, rt>>


InitAux ==
    /\ dt = NoDetect
    /\ http = NoHttp
    /\ hs = NoHandshake
    /\ bg = NoThread

(***************************************************************************)
(* The Host as a state machine: one action per operation.                  *)
(***************************************************************************)
NoLast == [op |-> "init", name |-> "", val |-> "None", out |-> "none",
           reg |-> NoReg, cats |-> NoCats, rep |-> NoRep, pinged |-> {},
           alive |-> {}, hint |-> "", server |-> "", called |-> FALSE,
           prewarm |-> FALSE, sent |-> <<>>]

\* Progress of enable_server(n); disable_server(n); enable_server(n).
RtNext(op, n, known) ==
    CASE op = "enable_server" /\ known ->
            IF rt.phase = 2 /\ rt.name = n THEN [name |-> n, phase |-> 3]
            ELSE [name |-> n, phase |-> 1]
      [] op = "disable_server" /\ known ->
            IF rt.phase = 1 /\ rt.name = n THEN [name |-> n, phase |-> 2]
            ELSE [name |-> "", phase |-> 0]
      [] OTHER -> [name |-> "", phase |-> 0]

Commit(H, l) ==
    /\ H.nextH <= MaxHandles + 1
    /\ servers' = H.servers
    /\ clients' = H.clients
    /\ live' = H.live
    /\ nextH' = H.nextH
    /\ last' = l
    /\ rt' = RtNext(l.op, l.name, l.name \in Names /\ servers[l.name].present)

\* The inputs of an operation: how the construction for n ends, for the
\* servers S (with the table cl) for which the operation attempts one
\* ("none" for the others), and which of the servers it reaches answer.
Needs(S, cl, n) == S[n].present /\ S[n].enabled /\ ~HasClient(cl, n)

OutsFor(d, S, cl) ==
    {o \in [Names -> Outcomes \cup {"none"}] :
        \A n \in Names :
            o[n] \in IF Needs(S, cl, n) THEN PossibleOutcomes(d, n, S[n].type)
                     ELSE {"none"}}

OutFor(d, S, cl, n) ==
    IF S[n].present /\ ~HasClient(cl, n) THEN PossibleOutcomes(d, n, S[n].type)
    ELSE {"none"}

OutForLazy(d, S, cl, n) ==
    IF Needs(S, cl, n) THEN PossibleOutcomes(d, n, S[n].type) ELSE {"none"}

\* Does the operation reach the client of n, given how a construction ends?
Reaches(S, cl, n, out) ==
    S[n].present /\ S[n].enabled /\ (HasClient(cl, n) \/ out = "ok")

PingsFor(S, cl, outs) ==
    {p \in [Names -> BOOLEAN] :
        \A n \in Names :
            p[n] => Reaches(S, cl, n, outs[n])}

ResultsFor(S, cl, outs) ==
    {r \in [Names -> ClientResults] :
        \A n \in Names :
            Reaches(S, cl, n, outs[n]) \/ r[n] = [tools |-> {}, raised |-> TRUE]}

\* For list_tools(name) alone, whose catalog the Host hands on unchanged:
\* the client answers with a catalog, or raises.
ResultFor(S, cl, n, out) ==
    IF Reaches(S, cl, n, out)
    THEN {[tools |-> Tools, raised |-> FALSE], [tools |-> {}, raised |-> TRUE]}
    ELSE {[tools |-> {}, raised |-> TRUE]}

CallResultFor(S, cl, n, out) ==
    IF Reaches(S, cl, n, out) THEN {"value", "null", "raised"} ELSE {"raised"}

InitHost ==
    /\ disk \in Configs
    /\ servers = load_config(disk)
    /\ clients = <<>>
    /\ live = {}
    /\ nextH = 1
    /\ tool_states = [n \in Names |-> [t \in Tools |-> NoOverride]]
    /\ last = NoLast
    /\ rt = [name |-> "", phase |-> 0]

\* The entry of one server in the configuration file is written or deleted
\* (the toggle, add, edit and delete handlers of host_server.py).
WriteConfig(n, e) ==
    /\ e # disk[n]
    /\ disk' = [disk EXCEPT ![n] = e]
    /\ disk' \in Configs
    /\ UNCHANGED <<servers, clients, live, nextH, tool_states, last, rt>>

\* The connection settings of a server's entry are edited in the file
\* (POST /api/server/{name}/config); the Host is not told.
EditConfig(n) ==
    /\ disk[n].present
    /\ disk[n].rev < MaxRev
    /\ disk' = [disk EXCEPT ![n].rev = @ + 1]
    /\ UNCHANGED <<servers, clients, live, nextH, tool_states, last, rt>>

\* start(prewarm): the program itself calls it with prewarm set
\* (mcp_host.py 34, host_server.py 630); the parameter defaults to True.
Start(prewarm) ==
    \E outs \in OutsFor(disk, servers, clients) :
        \E r \in {start(Host, disk, outs, prewarm)} :
        /\ Commit(r.H, [NoLast EXCEPT !.op = "start", !.val = r.ret,
                                      !.prewarm = prewarm, !.sent = r.sent])
        /\ UNCHANGED <<disk, tool_states>>

EnableServer(n) ==
    \E out \in OutFor(disk, servers, clients, n) :
        \E r \in {enable_server(Host, disk, n, out)} :
        /\ Commit(r.H, [NoLast EXCEPT !.op = "enable_server", !.name = n,
                                      !.val = r.ret, !.out = r.out])
        /\ UNCHANGED <<disk, tool_states>>

DisableServer(n) ==
    \E r \in {disable_server(Host, n)} :
    /\ Commit(r.H, [NoLast EXCEPT !.op = "disable_server", !.name = n,
                                  !.val = r.ret])
    /\ UNCHANGED <<disk, tool_states>>

ListTools(n) ==
    \E out \in OutForLazy(disk, servers, clients, n) :
    \E res \in ResultFor(servers, clients, n, out) :
        \E r \in {list_tools(Host, disk, n, out, res)} :
        /\ Commit(r.H, [NoLast EXCEPT !.op = "list_tools", !.name = n,
                                      !.val = r.ret, !.out = r.out])
        /\ UNCHANGED <<disk, tool_states>>

CallServerTool(n) ==
    \E out \in OutForLazy(disk, servers, clients, n) :
    \E res \in CallResultFor(servers, clients, n, out) :
        \E r \in {call_server_tool(Host, disk, n, out, res)} :
        /\ Commit(r.H, [NoLast EXCEPT !.op = "call_server_tool", !.name = n,
                                      !.val = r.ret, !.out = r.out])
        /\ UNCHANGED <<disk, tool_states>>

HealthCheck(target) ==
    \E outs \in OutsFor(disk, servers, clients) :
    \E pings \in PingsFor(servers, clients, outs) :
        \E r \in {health_check(Host, disk, target, outs, pings)} :
        /\ Commit(r.H, [NoLast EXCEPT !.op = "health_check", !.name = target,
                                      !.val = r.ret, !.rep = r.rep,
                                      !.pinged = r.pinged,
                                      !.alive = {n \in r.pinged : pings[n]}])
        /\ UNCHANGED <<disk, tool_states>>

ReloadConfig ==
    \E outs \in OutsFor(disk, load_config(disk), clients) :
        \E r \in {reload_config(Host, disk, outs)} :
        /\ Commit(r.H, [NoLast EXCEPT !.op = "reload_config", !.val = r.ret])
        /\ UNCHANGED <<disk, tool_states>>

ListAllTools ==
    \E outs \in OutsFor(disk, servers, clients) :
    \E results \in ResultsFor(servers, clients, outs) :
        \E r \in {list_all_tools(Host, disk, outs, results, tool_states)} :
        /\ Commit(r.H, [NoLast EXCEPT !.op = "list_all_tools", !.val = r.ret,
                                      !.reg = r.reg, !.cats = r.cats])
        /\ UNCHANGED <<disk, tool_states>>

ToolsToggle(n, t, enabled) ==
    /\ tool_states' = [tool_states EXCEPT
                          ![n][t] = tools_toggle(tool_states[n][t], enabled)]
    /\ last' = [NoLast EXCEPT !.op = "tools_toggle", !.name = n]
    /\ rt' = RtNext("tools_toggle", n, TRUE)
    /\ UNCHANGED <<disk, servers, clients, live, nextH>>

ToolsNote(n, t) ==
    /\ tool_states' = [tool_states EXCEPT ![n][t] = tools_note(tool_states[n][t])]
    /\ last' = [NoLast EXCEPT !.op = "tools_note", !.name = n]
    /\ rt' = RtNext("tools_note", n, TRUE)
    /\ UNCHANGED <<disk, servers, clients, live, nextH>>

\* call_tool(spec): the registry is aggregated only for a directive with a
\* name and without server hint; the lazy construction of call_server_tool
\* starts from the Host as the aggregation left it.
NoOuts == [n \in Names |-> "none"]
NoResults == [n \in Names |-> [tools |-> {}, raised |-> TRUE]]

CallTool(sp) ==
    \E outs \in IF sp.name # "" /\ sp.server = ""
                THEN OutsFor(disk, servers, clients) ELSE {NoOuts} :
    \E results \in IF sp.name # "" /\ sp.server = ""
                   THEN ResultsFor(servers, clients, outs) ELSE {NoResults} :
    \E k \in {call_tool_server(Host, disk, sp, outs, results, tool_states)} :
    \E out \in IF k.server \in Names
               THEN OutForLazy(disk, k.H.servers, k.H.clients, k.server)
               ELSE {"none"} :
    \E res \in IF k.server \in Names
               THEN CallResultFor(k.H.servers, k.H.clients, k.server, out)
               ELSE {"raised"} :
        \E r \in {call_tool(k, disk, sp, out, res)} :
        /\ Commit(r.H, [NoLast EXCEPT !.op = "call_tool", !.name = sp.name,
                                      !.hint = sp.server, !.val = r.ret,
                                      !.reg = r.reg,
                                      !.server = r.server,
                                      !.called = r.called])
        /\ UNCHANGED <<disk, tool_states>>

(***************************************************************************)
(* Specifications.                                                         *)
(***************************************************************************)
\* The Host's lifecycle operations, one at a time, on any configuration.
Init ==
    /\ InitStdio
    /\ InitHost
    /\ InitAux

Next ==
    \/ \E n \in Names, e \in DiskEntries \cup {NoEntry} :
          WriteConfig(n, e) /\ UNCHANGED <<stdioVars, auxVars>>
    \/ Start(TRUE) /\ UNCHANGED <<stdioVars, auxVars>>
    \/ \E n \in Names : EnableServer(n) /\ UNCHANGED <<stdioVars, auxVars>>
    \/ \E n \in Names : DisableServer(n) /\ UNCHANGED <<stdioVars, auxVars>>
    \/ \E n \in Names : ListTools(n) /\ UNCHANGED <<stdioVars, auxVars>>
    \/ \E n \in Names : CallServerTool(n) /\ UNCHANGED <<stdioVars, auxVars>>
    \/ \E n \in Names \cup {"*"} : HealthCheck(n) /\ UNCHANGED <<stdioVars, auxVars>>
    \/ ReloadConfig /\ UNCHANGED <<stdioVars, auxVars>>

Spec == Init /\ [][Next]_vars

\* One stdio client, its reader thread and its callers.
InitClient ==
    /\ InitStdio
    /\ InitHost
    /\ InitAux
    /\ disk = [n \in Names |-> NoEntry]

NextClient ==
    \/ \E c \in Callers : Request(c) /\ UNCHANGED <<hostVars, auxVars>>
    \/ \E line \in Lines \cup {EmptyLine} : Reader(line) /\ UNCHANGED <<hostVars, auxVars>>
    \/ \E c \in Callers : GetTimeout(c) /\ UNCHANGED <<hostVars, auxVars>>
    \/ \E c \in Callers : GetItem(c) /\ UNCHANGED <<hostVars, auxVars>>

SpecClient == InitClient /\ [][NextClient]_vars

\* The registry under the override document: both servers configured and
\* enabled in the file; servers are enabled and disabled, overrides edited,
\* and the registry aggregated, in any order.
InitTools ==
    /\ InitStdio
    /\ InitHost
    /\ InitAux
    /\ disk = [n \in Names |->
                  [present |-> TRUE, type |-> TypeOf(n), enabled |-> TRUE, rev |-> 1]]

NextTools ==
    \/ \E n \in Names : EnableServer(n) /\ UNCHANGED <<stdioVars, auxVars>>
    \/ \E n \in Names : DisableServer(n) /\ UNCHANGED <<stdioVars, auxVars>>
    \/ ListAllTools /\ UNCHANGED <<stdioVars, auxVars>>
    \/ \E n \in Names, t \in Tools, b \in BOOLEAN :
          ToolsToggle(n, t, b) /\ UNCHANGED <<stdioVars, auxVars>>
    \/ \E n \in Names, t \in Tools : ToolsNote(n, t) /\ UNCHANGED <<stdioVars, auxVars>>

SpecTools == InitTools /\ [][NextTools]_vars

\* Tool directives: both servers configured and enabled in the file; servers
\* are enabled and disabled, tools switched on and off, and directives
\* executed, in any order.
InitCall ==
    /\ InitStdio
    /\ InitHost
    /\ InitAux
    /\ disk = [n \in Names |->
                  [present |-> TRUE, type |-> TypeOf(n), enabled |-> TRUE, rev |-> 1]]

NextCall ==
    \/ \E n \in Names : EnableServer(n) /\ UNCHANGED <<stdioVars, auxVars>>
    \/ \E n \in Names : DisableServer(n) /\ UNCHANGED <<stdioVars, auxVars>>
    \/ \E n \in Names, t \in Tools, b \in BOOLEAN :
          ToolsToggle(n, t, b) /\ UNCHANGED <<stdioVars, auxVars>>
    \/ \E sp \in Directives : CallTool(sp) /\ UNCHANGED <<stdioVars, auxVars>>

SpecCall == InitCall /\ [][NextCall]_vars

\* Reconfiguration: entries of the file are edited while the Host runs, and
\* the Host starts, enables, disables and reloads.
InitReconf ==
    /\ InitStdio
    /\ InitHost
    /\ InitAux

NextReconf ==
    \/ \E n \in Names : EditConfig(n) /\ UNCHANGED <<stdioVars, auxVars>>
    \/ Start(TRUE) /\ UNCHANGED <<stdioVars, auxVars>>
    \/ \E n \in Names : EnableServer(n) /\ UNCHANGED <<stdioVars, auxVars>>
    \/ \E n \in Names : DisableServer(n) /\ UNCHANGED <<stdioVars, auxVars>>
    \/ ReloadConfig /\ UNCHANGED <<stdioVars, auxVars>>

SpecReconf == InitReconf /\ [][NextReconf]_vars

\* Construction: the file is fixed and its entries have any type, or none;
\* the Host starts (with and without prewarm), enables, disables and reloads.
InitConstruct ==
    /\ InitStdio
    /\ InitAux
    /\ disk \in [Names -> DiskEntries \cup {NoEntry}]
    /\ servers = load_config(disk)
    /\ clients = <<>>
    /\ live = {}
    /\ nextH = 1
    /\ tool_states = [n \in Names |-> [t \in Tools |-> NoOverride]]
    /\ last = NoLast
    /\ rt = [name |-> "", phase |-> 0]

NextConstruct ==
    \/ \E p \in BOOLEAN : Start(p) /\ UNCHANGED <<stdioVars, auxVars>>
    \/ \E n \in Names : EnableServer(n) /\ UNCHANGED <<stdioVars, auxVars>>
    \/ \E n \in Names : DisableServer(n) /\ UNCHANGED <<stdioVars, auxVars>>
    \/ ReloadConfig /\ UNCHANGED <<stdioVars, auxVars>>

SpecConstruct == InitConstruct /\ [][NextConstruct]_vars

\* run(): the start thread and the request handlers on one Host, with the
\* file as it was loaded.
InitRace ==
    /\ InitStdio
    /\ InitHost
    /\ dt = NoDetect
    /\ http = NoHttp
    /\ hs = NoHandshake
    /\ bg = [NoThread EXCEPT !.pc = "check"]

NextRace ==
    \/ BgCheck /\ UNCHANGED <<stdioVars, dt, http, hs>>
    \/ \E out \in Outcomes : BgConstruct(out) /\ UNCHANGED <<stdioVars, dt, http, hs>>
    \/ BgStore /\ UNCHANGED <<stdioVars, dt, http, hs>>
    \/ \E n \in Names : EnableServer(n) /\ UNCHANGED <<stdioVars, auxVars>>
    \/ \E n \in Names : DisableServer(n) /\ UNCHANGED <<stdioVars, auxVars>>
    \/ \E n \in Names : ListTools(n) /\ UNCHANGED <<stdioVars, auxVars>>
    \/ \E n \in Names : CallServerTool(n) /\ UNCHANGED <<stdioVars, auxVars>>
    \/ \E n \in Names \cup {"*"} : HealthCheck(n) /\ UNCHANGED <<stdioVars, auxVars>>

SpecRace == InitRace /\ [][NextRace]_vars

\* detect_tool on every text of up to MaxPieces pieces, and on a value that
\* is not a string.
InitDetect ==
    /\ InitStdio
    /\ InitHost
    /\ disk = [n \in Names |-> NoEntry]
    /\ http = NoHttp
    /\ hs = NoHandshake
    /\ bg = NoThread
    /\ \E t \in TextsOf(MaxPieces), b \in BOOLEAN :
          /\ b \/ t = <<>>
          /\ dt = [NoDetect EXCEPT !.isstr = b, !.text = t]

NextDetect == DetectTool /\ UNCHANGED <<stdioVars, hostVars>>

SpecDetect == InitDetect /\ [][NextDetect]_vars

\* One MCPClient: any configuration file and environment, a construction,
\* and operations against a server answering anything.
HttpOps == {"list_tools", "list_prompts", "list_resources", "call_tool", "ping"}

InitHttp ==
    /\ InitStdio
    /\ InitHost
    /\ disk = [n \in Names |-> NoEntry]
    /\ dt = NoDetect
    /\ hs = NoHandshake
    /\ bg = NoThread
    /\ \E cfg \in [Names -> UrlEntries], env \in BOOLEAN :
          http = [NoHttp EXCEPT !.cfg = cfg, !.env = env]

NextHttp ==
    \/ \E n \in Names : HttpConstruct(n) /\ UNCHANGED <<stdioVars, hostVars>>
    \/ \E op \in HttpOps, r \in Responses :
          HttpOp(op, r) /\ UNCHANGED <<stdioVars, hostVars>>

SpecHttp == InitHttp /\ [][NextHttp]_vars

\* One stdio server of the Host: its client is constructed by start or by
\* enable_server, again after a failure, against a subprocess that writes
\* any lines at any time.
InitHandshake ==
    /\ InitStdio
    /\ InitHost
    /\ disk = [n \in Names |-> NoEntry]
    /\ dt = NoDetect
    /\ http = NoHttp
    /\ hs = NoHandshake
    /\ bg = NoThread

NextHandshake ==
    \/ \E by \in {"start", "enable_server"}, out \in {"sent", "err", "exc"} :
          HsConstruct(by, out) /\ UNCHANGED <<stdioVars, hostVars>>
    \/ \E line \in HsLines : HsReader(line) /\ UNCHANGED <<stdioVars, hostVars>>
    \/ HsTimeoutPasses /\ UNCHANGED <<stdioVars, hostVars>>
    \/ HsGetTimeout /\ UNCHANGED <<stdioVars, hostVars>>
    \/ HsGetItem /\ UNCHANGED <<stdioVars, hostVars>>
    \/ \E m \in {"tools/list", "prompts/list", "resources/list", "tools/call"} :
          HsRequest(m) /\ UNCHANGED <<stdioVars, hostVars>>

SpecHandshake == InitHandshake /\ [][NextHandshake]_vars

\* The same client under the scheduling the code has: a caller thread that
\* can take a line from the queue does so, and a get() that finds the queue
\* empty for as long as it waits raises when its timeout has elapsed (each
\* call of get() starts a new timeout).  Nothing is assumed of the subprocess.
SpecClientFair ==
    /\ InitClient
    /\ [][NextClient]_vars
    /\ \A c \in Callers :
          /\ WF_vars(GetItem(c) /\ UNCHANGED <<hostVars, auxVars>>)
          /\ WF_vars(GetTimeout(c) /\ UNCHANGED <<hostVars, auxVars>>)

(***************************************************************************)
(* Properties.                                                             *)
(***************************************************************************)
Returned(i) == req[i].st = "returned"

\* C1: after list_all_tools(), in whatever state the Host is, a tool of a
\* server's live catalog that the server's override map marks
\* turn-on = false has no registry entry owned by that server.
C1_TurnedOffExcluded ==
    (last.op = "list_all_tools" /\ last.val = "ok") =>
        \A n \in Names : \A t \in last.cats[n] :
            (tool_states[n][t].in /\ tool_states[n][t].turn_on = "false")
                => last.reg[t] # n

C1_Witness ==
    /\ last.op = "list_all_tools" /\ last.val = "ok"
    /\ \E n \in Names : \E t \in last.cats[n] :
          /\ tool_states[n][t].turn_on = "false"
          /\ \E m \in Names \ {n} : t \in last.cats[m] /\ last.reg[t] = m

\* C2: default-on: every tool of a live catalog that is not marked
\* turn-on = false (no override entry, or an entry without the key, such as
\* one holding only a note) is in the registry of list_all_tools().
C2_DefaultOn ==
    (last.op = "list_all_tools" /\ last.val = "ok") =>
        \A n \in Names : \A t \in last.cats[n] :
            ~(tool_states[n][t].in /\ tool_states[n][t].turn_on = "false")
                => last.reg[t] # "-"

\* C3: single-flight: a request B issued when no other request is
\* outstanding, and alone until it returns, returns nothing or a message
\* carrying B's id, never the message of an earlier request A.
C3_SingleFlight ==
    \A b \in ReqIds :
        (Returned(b) /\ req[b].solo /\ req[b].res # Null) =>
            /\ req[b].res.kind = "obj"
            /\ req[b].res.id = b
            /\ \A a \in 1..(b - 1) : req[b].res.id # a

C3_Witness ==
    \E b \in ReqIds : \E a \in 1..(b - 1) :
        /\ Returned(a) /\ req[a].res = Null /\ a \in stale
        /\ Returned(b) /\ req[b].solo /\ req[b].res.id = b

C5_ReturnsOwnId ==
    [][\A c \in Callers :
          (pc[c] = "get" /\ pc'[c] = "idle") =>
              \/ req'[rid[c]].res = Null
              \/ (req'[rid[c]].res.kind = "obj" /\ req'[rid[c]].res.id = rid[c])]_vars

C5_Witness ==
    \E a \in ReqIds : \E b \in ReqIds \ {a} :
        /\ Returned(a) /\ ~req[a].solo /\ req[a].res.id = a
        /\ Returned(b) /\ ~req[b].solo /\ req[b].res.id = b

\* C6: a message taken from the queue is gone: the queue changes only by the
\* reader's put at its end or by the removal of its head, nothing is put
\* back.  (With two requests outstanding, the answer to one can so be
\* dropped by the caller of the other: C6_Witness.)
C6_NeverRequeued ==
    [][(out_q' # out_q /\ ~(\E l \in Lines : out_q' = Append(out_q, l)))
          => (out_q # <<>> /\ out_q' = Tail(out_q))]_vars

C6_Witness ==
    \E r \in ReqIds :
        Returned(r) /\ req[r].res = Null /\ r \in answered /\ r \in lost

\* C7: every call of _request returns.
C7_RequestReturns ==
    \A c \in Callers : (pc[c] = "get") ~> (pc[c] = "idle")

\* C8: enable_server(n); disable_server(n); enable_server(n), with no
\* construction failing, ends with a handle for n, status running and the
\* last call returning True.
C8_RoundTrip ==
    (rt.phase = 3 /\ last.out \notin {"err", "exc"}) =>
        /\ HasClient(clients, rt.name)
        /\ servers[rt.name].status = "running"
        /\ last.val = "True"

C8_Witness ==
    /\ rt.phase = 3 /\ last.out = "ok"
    /\ last.op = "enable_server" /\ last.name = rt.name

\* C9: at most one live client handle per server name.
C9_OneLiveHandle ==
    \A n \in Names : Cardinality({x \in live : x.name = n}) <= 1

\* C10: a server whose status is unknown has no handle in the client table.
C10_UnknownHasNoClient ==
    \A n \in Names :
        (servers[n].present /\ servers[n].status = "unknown")
            => ~HasClient(clients, n)

\* C11: reload_config completes normally for every new configuration, and
\* then the table holds no handle for a server that is absent from the new
\* configuration or not enabled in it, and every enabled server without a
\* handle has had its construction attempt (status down).
C11_ReloadSyncs ==
    last.op = "reload_config" =>
        /\ last.val # "KeyError"
        /\ last.val = "None" =>
              \A n \in Names :
                 /\ (~servers[n].present \/ ~servers[n].enabled)
                        => ~HasClient(clients, n)
                 /\ (servers[n].present /\ servers[n].enabled
                        /\ ~HasClient(clients, n)) => servers[n].status = "down"

\* C12: reload_config leaves the handle of a server that had one and is
\* still present and enabled in the new configuration: the table holds the
\* same handle afterwards and no client was constructed for that server.
C12_KeepsHandles ==
    [][(last'.op = "reload_config" /\ disk' = disk) =>
          \A n \in Names :
              (HasClient(clients, n) /\ disk[n].present /\ disk[n].enabled) =>
                  /\ HasClient(clients', n)
                  /\ ClientOf(clients', n) = ClientOf(clients, n)
                  /\ \A x \in live' \ live : x.name # n]_vars

\* A kept handle shows in the state: only reload_config leaves a server with
\* a handle and the status unknown that load_config gave it.
C12_Witness ==
    /\ last.op = "reload_config" /\ last.val = "None"
    /\ \E n \in Names :
          /\ HasClient(clients, n) /\ servers[n].enabled
          /\ servers[n].status = "unknown"
          /\ \E m \in Names \ {n} :
                HasClient(clients, m) /\ servers[m].status = "running"

\* C13: a handle is destroyed when its server is reconfigured: a handle
\* constructed from an entry whose settings have since changed is not in the
\* table after reload_config.
C13_ReconfiguredDropped ==
    [][(last'.op = "reload_config" /\ last'.val = "None" /\ disk' = disk) =>
          \A i \in 1..Len(clients) :
              (/\ clients[i].src = clients[i].name
               /\ disk[clients[i].name].present
               /\ disk[clients[i].name].rev # clients[i].rev)
                  => \A j \in 1..Len(clients') : clients'[j] # clients[i]]_vars

\* C14: a construction that fails, in whatever way, makes enable_server
\* return False with the server's status down, and makes start leave the
\* status down; no exception leaves enable_server or start.
C14_FailureSurfaced ==
    /\ (last.op = "enable_server" /\ last.out \in {"err", "exc"}) =>
           (last.val = "False" /\ servers[last.name].status = "down")
    /\ last.op \in {"enable_server", "start"} => last.val # "raise"

\* C15: after start(), every enabled server has either a handle in the
\* table or, its one construction having failed, the status down: a failed
\* construction does not keep start from the servers after it.
C15_StartReachesAll ==
    last.op = "start" =>
        \A n \in Names :
            (servers[n].present /\ servers[n].enabled) =>
                \/ HasClient(clients, n)
                \/ servers[n].status = "down"

\* C16: enable_server(name) on a server that has a handle returns True,
\* constructs nothing and leaves the table as it is; on a name that is not
\* in the registry it returns False and changes neither the table nor any
\* server's enabled flag or status.
C16_EnableIdempotent ==
    [][\A n \in Names :
          (last'.op = "enable_server" /\ last'.name = n /\ disk' = disk) =>
              /\ HasClient(clients, n) =>
                    /\ last'.val = "True"
                    /\ clients' = clients
                    /\ live' = live
                    /\ nextH' = nextH
              /\ ~servers[n].present =>
                    /\ last'.val = "False"
                    /\ clients' = clients
                    /\ live' = live
                    /\ servers' = servers]_vars

\* C17: disable_server(name) on a known server, whatever its status,
\* returns True and leaves it with enabled = false, status disabled and no
\* handle in the table; on an unknown name it returns False and changes
\* nothing.
C17_DisableAlways ==
    [][\A n \in Names :
          (last'.op = "disable_server" /\ last'.name = n /\ disk' = disk) =>
              IF servers[n].present
              THEN /\ last'.val = "True"
                   /\ ~servers'[n].enabled
                   /\ servers'[n].status = "disabled"
                   /\ ~HasClient(clients', n)
                   /\ \A m \in Names \ {n} : servers'[m] = servers[m]
              ELSE /\ last'.val = "False"
                   /\ servers' = servers
                   /\ clients' = clients
                   /\ live' = live]_vars

C17_Witness ==
    /\ last.op = "disable_server" /\ last.val = "True"
    /\ servers[last.name].status = "disabled"
    /\ ~HasClient(clients, last.name)
    /\ \E x \in live : x.name = last.name

\* C18: list_tools(name) returns the empty catalog with remote_enabled =
\* false when the server is unknown or disabled, making no construction
\* attempt, and when the server has no client and enabling it fails.
C18_ListToolsEmpty ==
    [][\A n \in Names :
          (last'.op = "list_tools" /\ last'.name = n /\ disk' = disk) =>
              /\ (~servers[n].present \/ ~servers[n].enabled) =>
                    /\ last'.val = "empty"
                    /\ last'.out = "none"
                    /\ nextH' = nextH /\ clients' = clients /\ servers' = servers
              /\ last'.out \in {"err", "exc"} => last'.val = "empty"]_vars

\* C19: call_server_tool never lets an exception out: whatever the state of
\* the server and whatever fails, it returns a value or the null result.
C19_CallNeverRaises ==
    last.op = "call_server_tool" => last.val \in {"value", "null"}

\* C20: health_check makes no connection attempt for a target that is
\* disabled or unknown: no client is constructed for it, no method of a
\* client of it is called, its table entry and stored status stay as they
\* are, and it is reported as disabled (or missing).
C20_NoProbeWhenDisabled ==
    [][\A t \in Names \cup {"*"} :
          (last'.op = "health_check" /\ last'.name = t /\ disk' = disk) =>
              \A n \in Names :
                  (/\ t = n \/ (t = "*" /\ servers[n].present)
                   /\ ~servers[n].present \/ ~servers[n].enabled) =>
                      /\ n \notin last'.pinged
                      /\ servers'[n] = servers[n]
                      /\ HasClient(clients', n) <=> HasClient(clients, n)
                      /\ \A x \in live' \ live : x.name # n
                      /\ t = n => (clients' = clients /\ servers' = servers
                                     /\ nextH' = nextH)
                      /\ last'.val = "None" =>
                            last'.rep[n] = IF servers[n].present THEN "disabled"
                                           ELSE "missing"]_vars

C20_Witness ==
    /\ last.op = "health_check" /\ last.name = "*" /\ last.val = "None"
    /\ \E n \in Names :
          /\ last.rep[n] = "disabled" /\ servers[n].status = "disabled"
          /\ \E x \in live : x.name = n
    /\ \E m \in Names : m \in last.pinged
\* C21: both client kinds implement ping, so health_check on an enabled
\* server whose client is live and answers requests reports and records
\* "running", for http and for stdio alike.
C21_AnsweringIsRunning ==
    last.op = "health_check" /\ last.val # "raise" =>
        \A n \in last.alive :
            last.rep[n] = "running" /\ servers[n].status = "running"

\* C22: a failed invocation through call_tool (the server unknown, disabled
\* or unreachable, the call timed out or without usable result) yields the
\* object with the tool name, the server name and an error message, and
\* call_tool never raises.
C22_FailureIsStructured ==
    last.op = "call_tool" =>
        /\ last.val # "raise"
        /\ last.server # "" /\ last.val # "result" => last.val = "error"

\* C23: without server hint call_tool looks the name up in the aggregate
\* registry and delegates to call_server_tool on the owning server; a name
\* that is not in the registry gives the "tool not found" result, and no
\* tools/call request is sent.
C23_ResolvesByRegistry ==
    last.op = "call_tool" /\ last.hint = "" /\ last.name # "" =>
        IF last.name \in Tools /\ last.reg[last.name] # "-"
        THEN /\ last.server = last.reg[last.name]
             /\ last.val \in {"result", "result_null", "error"}
        ELSE /\ last.val = "not_found"
             /\ last.server = ""
             /\ ~last.called

\* C24: when two enabled servers both expose an enabled tool (one that is
\* not marked turn-on = false) of the same name, the registry has its one
\* entry for that name owned by the server that comes later in the order.
C24_LaterServerWins ==
    last.op = "list_all_tools" /\ last.val = "ok" =>
        \A t \in Tools :
            \A i \in 1..Len(Order), j \in 1..Len(Order) :
                (/\ i < j
                 /\ \A n \in {Order[i], Order[j]} :
                        /\ servers[n].present /\ servers[n].enabled
                        /\ t \in last.cats[n]
                        /\ tool_states[n][t].turn_on # "false"
                 /\ \A k \in (j + 1)..Len(Order) :
                        ~(t \in last.cats[Order[k]]
                            /\ tool_states[Order[k]][t].turn_on # "false"))
                => last.reg[t] = Order[j]

\* The first <tool> tag of the text that "{" follows (whitespace apart), and
\* what it opens: a block of well-formed JSON, or a block whose JSON object
\* is not empty.
FirstOpening(t, i) ==
    /\ t[i] \in OpenTags
    /\ SkipWs(t, i + 1) <= Len(t) /\ StartsBrace(t[SkipWs(t, i + 1)])
    /\ \A k \in 1..(i - 1) :
          ~(t[k] \in OpenTags /\ SkipWs(t, k + 1) <= Len(t)
              /\ StartsBrace(t[SkipWs(t, k + 1)]))

WellFormedAt(t, i) ==
    /\ t[i] \in OpenTags
    /\ SkipWs(t, i + 1) <= Len(t)
    /\ t[SkipWs(t, i + 1)] \in GoodObjects \cup {EmptyObject}
    /\ ClosesAt(t, SkipWs(t, i + 1) + 1)

GoodBlockAt(t, i) == WellFormedAt(t, i) /\ t[SkipWs(t, i + 1)] \in GoodObjects

NoTaggedBlock(t) ==
    ~\E i \in 1..Len(t), j \in 1..Len(t) :
        i < j /\ t[i] \in OpenTags /\ t[j] \in CloseTags

\* C25 as stated: on a text whose first <tool>{...}</tool> block holds
\* malformed JSON, detect_tool returns found = true with the empty object.
C25_MalformedFound ==
    dt.done /\ dt.isstr =>
        \A i \in 1..Len(dt.text) :
            FirstOpening(dt.text, i) /\ ~WellFormedAt(dt.text, i) =>
                dt.found /\ dt.spec = EmptyObject

\* C25 amended: on a text whose first <tool>{...}</tool> block holds
\* malformed JSON, detect_tool returns found = false with the empty object.
C25_MalformedNotFound ==
    dt.done /\ dt.isstr =>
        \A i \in 1..Len(dt.text) :
            FirstOpening(dt.text, i) /\ ~WellFormedAt(dt.text, i) =>
                ~dt.found /\ dt.spec = EmptyObject

C25_Witness ==
    /\ dt.done /\ dt.isstr /\ ~dt.found /\ dt.spec = EmptyObject
    /\ Len(dt.text) >= 6
    /\ SubSeq(dt.text, 1, 3) = <<"<tool>", "{oops}", "</tool>">>
    /\ GoodBlockAt(dt.text, 4)

\* C26 as stated: on a text that holds a well-formed block with a non-empty
\* object, detect_tool returns (true, the object of the first such block);
\* on a text without tagged block it returns (false, {}).
C26_FirstGoodBlock ==
    dt.done /\ dt.isstr =>
        /\ \A i \in 1..Len(dt.text) :
              (GoodBlockAt(dt.text, i)
                 /\ \A k \in 1..(i - 1) : ~GoodBlockAt(dt.text, k))
              => dt.found /\ dt.spec = dt.text[SkipWs(dt.text, i + 1)]
        /\ NoTaggedBlock(dt.text) => ~dt.found /\ dt.spec = EmptyObject

\* C26 amended: when the first <tool> tag that "{" follows opens a
\* well-formed block with a non-empty object, detect_tool returns (true,
\* that object), in any letter case of the tags and whatever follows the
\* block; on a text without tagged block it returns (false, {}).
C26_FirstOpeningGood ==
    dt.done /\ dt.isstr =>
        /\ \A i \in 1..Len(dt.text) :
              FirstOpening(dt.text, i) /\ GoodBlockAt(dt.text, i)
              => dt.found /\ dt.spec = dt.text[SkipWs(dt.text, i + 1)]
        /\ NoTaggedBlock(dt.text) => ~dt.found /\ dt.spec = EmptyObject

C26_Witness ==
    /\ dt.done /\ dt.found
    /\ dt.spec = "{\"name\":\"y\",\"parameters\":{}}"
    /\ Len(dt.text) = 8
    /\ dt.text[1] = "<TOOL>" /\ GoodBlockAt(dt.text, 1)
    /\ GoodBlockAt(dt.text, 6) /\ dt.text[7] = "{\"name\":\"x\"}"

\* C27: constructing an MCPClient for a server name that is not in the
\* configuration, with no url in the environment, raises the configuration
\* error (MCPClientError), whatever other servers are configured.
C27_AbsentNameFails ==
    http.phase # "none" /\ ~http.cfg[http.chosen].present /\ ~http.env =>
        http.phase = "failed" /\ http.err = "MCPClientError"

\* C28: no operation of a constructed MCPClient raises, whatever the status
\* code, the body or the network does; on a status other than 200, a network
\* failure or a body that is not JSON a list operation returns the empty
\* list, call_tool null and ping false.
C28_NeverRaises ==
    http.op # "" =>
        /\ http.ret # "raise"
        /\ IsFailure(http.resp) =>
              http.ret = CASE http.op = "call_tool" -> "null"
                           [] http.op = "ping" -> "False"
                           [] OTHER -> "empty"

\* C29: the construction of a stdio client succeeds (and the Host stores the
\* handle) only if a message with the id of the initialize request and the
\* key "result" or "error" was received within the timeout; otherwise it
\* fails, and the Host stores no handle.
C29_HandshakeInTime ==
    /\ hs.stored =>
          /\ hs.got.kind = "obj" /\ hs.got.id = InitId
          /\ hs.got.key \in {"result", "error"}
          /\ ~hs.got.late
    /\ hs.phase \in {"failed", "broken"} => ~hs.stored

\* C30: initialize is the first line written to the subprocess, and nothing
\* else is written before the response to it has been received, the prewarm
\* tools/list of start included.
C30_InitializeFirst ==
    /\ hs.wlog # <<>> => hs.wlog[1] = "initialize"
    /\ Len(hs.wlog) > 1 =>
          /\ hs.got.kind = "obj" /\ hs.got.id = InitId
          /\ \A i \in 2..Len(hs.wlog) : hs.wlog[i] # "initialize"

C30_Witness ==
    /\ hs.by = "start" /\ hs.phase = "wait"
    /\ hs.wlog = <<"initialize", "tools/list">>
    /\ hs.got.id = InitId /\ hs.got.key = "result"

\* C37: after any sequence of Host operations executed one at a time, a
\* server whose status is running has a handle in the client table.
C37_RunningHasClient ==
    \A n \in Names :
        (servers[n].present /\ servers[n].status = "running")
            => HasClient(clients, n)

C37_Witness ==
    /\ last.op = "health_check"
    /\ \E n \in Names : servers[n].status = "running" /\ HasClient(clients, n)
    /\ \E n \in Names : servers[n].status = "disabled" /\ ~HasClient(clients, n)

\* C38: whenever enable_server(name) returns True, the status of the server
\* right afterwards is running, whatever the state before the call.
C38_EnabledIsRunning ==
    (last.op = "enable_server" /\ last.val = "True")
        => servers[last.name].status = "running"

\* C34: every handle the table holds under the name N was constructed from
\* the entry called N of the configuration file, never from the entry of
\* another server.
C34_BuiltFromOwnEntry ==
    \A i \in 1..Len(clients) : clients[i].src = clients[i].name

\* C39: a tool that the override map of server S marks turn-on = false is
\* never invoked on S through call_tool(spec), whether the directive has no
\* server hint or names S.
C39_TurnedOffNeverCalled ==
    (last.op = "call_tool" /\ last.called /\ last.name \in Tools
        /\ last.server \in Names)
        => tool_states[last.server][last.name].turn_on # "false"

\* C32: when a line dequeued while _request waits fails to parse as JSON,
\* _request returns None: the caller that dequeued it stops waiting with the
\* result None.
C32_ParseFailureReturnsNone ==
    [][(out_q # <<>> /\ Head(out_q).kind = "bad" /\ out_q' = Tail(out_q)) =>
          \E c \in Callers :
              /\ pc[c] = "get" /\ pc'[c] = "idle"
              /\ req'[rid[c]].st = "returned"
              /\ req'[rid[c]].res = Null]_vars

\* C31: start(prewarm = true) issues exactly one list_tools request to each
\* stdio server it constructs, right after the construction, and none to a
\* server that got the HTTP client; start(prewarm = false) issues none.
C31_PrewarmStdioOnly ==
    last.op = "start" =>
        /\ \A i \in 1..Len(last.sent) :
              last.sent[i].ev = "tools/list" =>
                  /\ last.prewarm
                  /\ i > 1
                  /\ last.sent[i - 1] = [ev |-> "new", to |-> last.sent[i].to]
                  /\ ClientOf(clients, last.sent[i].to).kind = "stdio"
        /\ \A i \in 1..Len(last.sent) :
              (/\ last.sent[i].ev = "new"
               /\ last.prewarm
               /\ ClientOf(clients, last.sent[i].to).kind = "stdio") =>
                  /\ i < Len(last.sent)
                  /\ last.sent[i + 1] = [ev |-> "tools/list", to |-> last.sent[i].to]
        /\ \A n \in Names :
              Cardinality({i \in 1..Len(last.sent) :
                              last.sent[i] = [ev |-> "tools/list", to |-> n]}) <= 1

C31_Witness ==
    /\ last.op = "start" /\ last.prewarm
    /\ \E n, m \in Names :
          /\ servers[n].type = "stdio" /\ servers[m].type # "stdio"
          /\ \E i, j \in 1..Len(last.sent) :
                /\ last.sent[i] = [ev |-> "tools/list", to |-> n]
                /\ last.sent[j] = [ev |-> "new", to |-> m]

\* C33: the kind of a client is decided by the configured type of its server
\* alone, in the same way by start, enable_server and reload_config: a stdio
\* client exactly when the type is "stdio", an HTTP client for every other
\* type and for a missing type.
C33_KindByType ==
    \A i \in 1..Len(clients) :
        clients[i].kind = IF servers[clients[i].name].type = "stdio"
                          THEN "stdio" ELSE "http"

C33_Witness ==
    /\ last.op = "reload_config"
    /\ \E i, j \in 1..Len(clients) :
          /\ servers[clients[i].name].type = "missing" /\ clients[i].kind = "http"
          /\ servers[clients[j].name].type = "stdio" /\ clients[j].kind = "stdio"

\* C40: when the construction of a stdio client fails after its subprocess
\* has been spawned, the subprocess is terminated: once the construction
\* error has been raised, no subprocess of the failed construction runs.
C40_FailedConstructionTerminates ==
    hs.phase = "failed" => hs.proc # "running"

\* C35: while the start thread of run() runs concurrently with the request
\* handlers, each server is constructed at most once: no step replaces the
\* handle of a server in the client table by another handle.
C35_NoHandleOverwritten ==
    [][\A n \in Names :
          (HasClient(clients, n) /\ HasClient(clients', n))
              => ClientOf(clients', n) = ClientOf(clients, n)]_vars

\* C36: disable_server is not undone by the start thread: a server that
\* disable_server left disabled and without handle stays so for as long as
\* nothing enables it.
C36_DisableNotUndone ==
    [][\A n \in Names :
          (/\ servers[n].present /\ ~servers[n].enabled
           /\ servers[n].status = "disabled" /\ ~HasClient(clients, n)
           /\ ~servers'[n].enabled)
              => /\ servers'[n].status = "disabled"
                 /\ ~HasClient(clients', n)]_vars

====
